---- MODULE Spec2Model ----
(***************************************************************************)
(* Model of trigger-builds.py: the top-level flow main() and the routine   *)
(* run_build_command(platform), together with the external "eas" process   *)
(* the routine spawns through subprocess.run(..., check=True).             *)
(*                                                                         *)
(* The script is exercised in three ways, chosen in Init:                  *)
(*   "script" : python trigger-builds.py     (main with the real routine)  *)
(*   "mock"   : main() with the Android call replaced by a boolean         *)
(*              (mockAndroid); the iOS call runs the real routine          *)
(*   "call"   : one direct call run_build_command(p), p in Platforms       *)
(***************************************************************************)
EXTENDS Integers, Sequences, FiniteSets, TLC

VARIABLES
    harness,          \* how the script is exercised
    mockAndroid,      \* result of the mocked Android call ("mock" only)
    envLaunch,        \* environment: the eas executable can be launched
    envHangs,         \* environment: a launched eas process never exits
    pc,               \* position of main() / of the direct caller
    fpc,              \* position inside run_build_command
    platform,         \* argument of the current run_build_command call
    cmd,              \* local cmd of run_build_command
    procs,            \* external processes spawned so far, in order
    spawned,          \* subprocess.run invocations made by the current call
    attempts,         \* platforms run_build_command was called with, in order
    exc,              \* exception in flight
    ret,              \* value returned by the last finished call
    android_success,  \* local of main
    ios_success,      \* local of main
    stdout,           \* lines printed so far
    sleepLeft,        \* seconds time.sleep still has to block
    elapsed,          \* seconds slept since the Android attempt returned
    exited,           \* the python process has exited
    exitStatus        \* its exit status (meaningful once exited)

vars == <<harness, mockAndroid, envLaunch, envHangs, pc, fpc, platform, cmd,
          procs, spawned, attempts, exc, ret, android_success, ios_success,
          stdout, sleepLeft, elapsed, exited, exitStatus>>

\* ---------------------------------------------------------------- bounds
MaxExit == 2          \* the external process exits with a status in 0..MaxExit

\* ------------------------------------------------------------- constants
SleepSeconds == 2     \* time.sleep(2)

Platforms == {"android", "ios", "all"}

\* ------------------------------------------------------ values and helpers
NoExc == [type |-> "none", code |-> 0]
CalledProcessError(c) == [type |-> "CalledProcessError", code |-> c]
FileNotFoundError == [type |-> "FileNotFoundError", code |-> 0]

Line(t) == [text |-> t, e |-> NoExc]
ErrLine(t, e) == [text |-> t, e |-> e]

\* platform.upper()
Upper(p) == CASE p = "android" -> "ANDROID"
              [] p = "ios" -> "IOS"
              [] OTHER -> "ALL"

\* cmd = ["eas", "build", "--profile", "preview", "--platform", platform]
Cmd(p) == <<"eas", "build", "--profile", "preview", "--platform", p>>

\* cmd + ["--non-interactive"]
SpawnArgvBare(c) == c
SpawnArgv(c) == c \o <<"--non-interactive">>

\* if platform == "android":
IsAndroidSwapped(p) == p = "ios"
IsAndroid(p) == p = "android"

\* return False  (Android branch)
AndroidResultTrue == TRUE
AndroidResult == FALSE

\* check=True: a non-zero return code raises CalledProcessError
CheckRaisesNever(c) == FALSE
CheckRaises(c) == c # 0

\* except subprocess.CalledProcessError as e:
Catches(e) == e.type = "CalledProcessError"

\* subprocess.run blocks until the child has exited (no timeout argument)
WaitDoneNoWait(p) == TRUE
WaitDone(p) == p.state = "exited"

\* time.sleep returns once the whole delay has elapsed
SleepReturnedEarly == TRUE
SleepReturned == sleepLeft = 0

\* if not android_success:
AndroidFailedOrIos == ~android_success \/ ~ios_success
AndroidFailed == ~android_success

Running == {i \in 1..Len(procs) : procs[i].state = "running"}
FnDone == fpc \in {"returned", "raised"}

\* ------------------------------------------------------------------- Init
Init ==
    /\ harness \in {"script", "mock", "call"}
    /\ mockAndroid \in BOOLEAN
    /\ (harness # "mock" => mockAndroid = FALSE)
    /\ envLaunch \in BOOLEAN
    /\ envHangs \in BOOLEAN
    /\ pc = "start"
    /\ fpc = "idle"
    /\ platform = "none"
    /\ cmd = <<>>
    /\ procs = <<>>
    /\ spawned = 0
    /\ attempts = <<>>
    /\ exc = NoExc
    /\ ret = FALSE
    /\ android_success = FALSE
    /\ ios_success = FALSE
    /\ stdout = <<>>
    /\ sleepLeft = 0
    /\ elapsed = 0
    /\ exited = FALSE
    /\ exitStatus = 0

\* ---------------------------------------------------- run_build_command
\* the call itself: bind the argument and enter the body
Enter(p) ==
    /\ fpc = "idle"
    /\ fpc' = "entry"
    /\ platform' = p
    /\ attempts' = Append(attempts, p)
    /\ spawned' = 0
    /\ cmd' = <<>>
    /\ exc' = NoExc

\* lines 9-11: build cmd, print the banner of the platform
RbcEntry ==
    /\ fpc = "entry"
    /\ cmd' = Cmd(platform)
    /\ stdout' = Append(stdout, Line("Starting " \o Upper(platform) \o " build..."))
    /\ fpc' = "branch"
    /\ UNCHANGED <<harness, mockAndroid, envLaunch, envHangs, pc, platform,
                   procs, spawned, attempts, exc, ret, android_success,
                   ios_success, sleepLeft, elapsed, exited, exitStatus>>

\* lines 14-18: the Android branch prints the manual instructions, returns False
RbcAndroid ==
    /\ fpc = "branch"
    /\ IsAndroid(platform)
    /\ stdout' = stdout \o <<Line("Note: manually accept the keystore generation"),
                             Line("Please run: eas build --profile preview --platform android"),
                             Line("And select 'Yes' when prompted")>>
    /\ ret' = AndroidResult
    /\ fpc' = "returned"
    /\ UNCHANGED <<harness, mockAndroid, envLaunch, envHangs, pc, platform, cmd,
                   procs, spawned, attempts, exc, android_success,
                   ios_success, sleepLeft, elapsed, exited, exitStatus>>

\* line 22: subprocess.run launches the child
RbcSpawn ==
    /\ fpc = "branch"
    /\ ~IsAndroid(platform)
    /\ envLaunch
    /\ procs' = Append(procs, [argv |-> SpawnArgv(cmd), state |-> "running", code |-> 0])
    /\ spawned' = spawned + 1
    /\ fpc' = "wait"
    /\ UNCHANGED <<harness, mockAndroid, envLaunch, envHangs, pc, platform, cmd,
                   attempts, exc, ret, android_success, ios_success, stdout,
                   sleepLeft, elapsed, exited, exitStatus>>

\* line 22: the executable cannot be launched, Popen raises FileNotFoundError
RbcLaunchFail ==
    /\ fpc = "branch"
    /\ ~IsAndroid(platform)
    /\ ~envLaunch
    /\ spawned' = spawned + 1
    /\ exc' = FileNotFoundError
    /\ fpc' = "handler"
    /\ UNCHANGED <<harness, mockAndroid, envLaunch, envHangs, pc, platform, cmd,
                   procs, attempts, ret, android_success, ios_success,
                   stdout, sleepLeft, elapsed, exited, exitStatus>>

\* the environment: a running child exits with some status
ProcExit ==
    /\ ~envHangs
    /\ \E i \in Running, c \in 0..MaxExit :
          procs' = [procs EXCEPT ![i] = [@ EXCEPT !.state = "exited", !.code = c]]
    /\ UNCHANGED <<harness, mockAndroid, envLaunch, envHangs, pc, fpc, platform,
                   cmd, spawned, attempts, exc, ret, android_success,
                   ios_success, stdout, sleepLeft, elapsed, exited, exitStatus>>

\* lines 22-23: run() returns once the child has exited; check=True raises on
\* a non-zero status, otherwise the routine returns True
RbcWait ==
    /\ fpc = "wait"
    /\ LET p == procs[Len(procs)] IN
         /\ WaitDone(p)
         /\ IF CheckRaises(p.code)
              THEN /\ exc' = CalledProcessError(p.code)
                   /\ fpc' = "handler"
                   /\ ret' = ret
              ELSE /\ exc' = exc
                   /\ fpc' = "returned"
                   /\ ret' = TRUE
    /\ UNCHANGED <<harness, mockAndroid, envLaunch, envHangs, pc, platform, cmd,
                   procs, spawned, attempts, android_success, ios_success,
                   stdout, sleepLeft, elapsed, exited, exitStatus>>

\* a handler that tries the build again (not what the source does)
RbcExceptRetry ==
    /\ fpc = "handler"
    /\ Catches(exc)
    /\ stdout' = Append(stdout, ErrLine("Build failed: ", exc))
    /\ exc' = NoExc
    /\ fpc' = "branch"
    /\ UNCHANGED <<harness, mockAndroid, envLaunch, envHangs, pc, platform, cmd,
                   procs, spawned, attempts, ret, android_success, ios_success,
                   sleepLeft, elapsed, exited, exitStatus>>

\* lines 24-26: the handler prints the error and returns False
RbcExcept ==
    /\ fpc = "handler"
    /\ Catches(exc)
    /\ stdout' = Append(stdout, ErrLine("Build failed: ", exc))
    /\ ret' = FALSE
    /\ exc' = NoExc
    /\ fpc' = "returned"
    /\ UNCHANGED <<harness, mockAndroid, envLaunch, envHangs, pc, platform, cmd,
                   procs, spawned, attempts, android_success, ios_success,
                   sleepLeft, elapsed, exited, exitStatus>>

\* lines 21-26: an exception no except clause matches leaves the routine
RbcPropagate ==
    /\ fpc = "handler"
    /\ ~Catches(exc)
    /\ fpc' = "raised"
    /\ UNCHANGED <<harness, mockAndroid, envLaunch, envHangs, pc, platform, cmd,
                   procs, spawned, attempts, exc, ret, android_success,
                   ios_success, stdout, sleepLeft, elapsed, exited, exitStatus>>

\* ------------------------------------------------------------------ main
\* lines 29-38: banner
MainBanner ==
    /\ harness \in {"script", "mock"}
    /\ pc = "start"
    /\ stdout' = stdout \o <<Line("EAS Preview Build Trigger"),
                             Line("Build Profile: preview"),
                             Line("First, let's handle Android...")>>
    /\ pc' = "call_android"
    /\ UNCHANGED <<harness, mockAndroid, envLaunch, envHangs, fpc, platform, cmd,
                   procs, spawned, attempts, exc, ret, android_success,
                   ios_success, sleepLeft, elapsed, exited, exitStatus>>

\* line 39: run_build_command("android")
MainCallAndroid ==
    /\ harness = "script"
    /\ pc = "call_android"
    /\ Enter("android")
    /\ pc' = "in_android"
    /\ UNCHANGED <<harness, mockAndroid, envLaunch, envHangs, procs, ret,
                   android_success, ios_success, stdout, sleepLeft, elapsed,
                   exited, exitStatus>>

\* line 39 with the routine mocked for this call: it yields mockAndroid
MainCallAndroidMock ==
    /\ harness = "mock"
    /\ pc = "call_android"
    /\ fpc = "idle"
    /\ platform' = "android"
    /\ attempts' = Append(attempts, "android")
    /\ ret' = mockAndroid
    /\ fpc' = "returned"
    /\ pc' = "in_android"
    /\ UNCHANGED <<harness, mockAndroid, envLaunch, envHangs, cmd, procs,
                   spawned, exc, android_success, ios_success, stdout,
                   sleepLeft, elapsed, exited, exitStatus>>

\* line 39: android_success = <returned value>
MainAndroidReturned ==
    /\ pc = "in_android"
    /\ fpc = "returned"
    /\ android_success' = ret
    /\ fpc' = "idle"
    /\ pc' = "branch"
    /\ UNCHANGED <<harness, mockAndroid, envLaunch, envHangs, platform, cmd,
                   procs, spawned, attempts, exc, ret, ios_success, stdout,
                   sleepLeft, elapsed, exited, exitStatus>>

\* lines 41-46: guidance and sys.exit(1)
MainAndroidFailed ==
    /\ pc = "branch"
    /\ AndroidFailed
    /\ stdout' = stdout \o <<Line("Android build requires manual interaction."),
                             Line("eas build --profile preview --platform ios --non-interactive")>>
    /\ exited' = TRUE
    /\ exitStatus' = 1
    /\ pc' = "exit"
    /\ UNCHANGED <<harness, mockAndroid, envLaunch, envHangs, fpc, platform, cmd,
                   procs, spawned, attempts, exc, ret, android_success,
                   ios_success, sleepLeft, elapsed>>

\* line 49: time.sleep(2) starts
MainSleep ==
    /\ pc = "branch"
    /\ ~AndroidFailed
    /\ sleepLeft' = SleepSeconds
    /\ pc' = "sleep"
    /\ UNCHANGED <<harness, mockAndroid, envLaunch, envHangs, fpc, platform, cmd,
                   procs, spawned, attempts, exc, ret, android_success,
                   ios_success, stdout, elapsed, exited, exitStatus>>

\* one second passes while main sleeps
Tick ==
    /\ pc = "sleep"
    /\ sleepLeft > 0
    /\ sleepLeft' = sleepLeft - 1
    /\ elapsed' = elapsed + 1
    /\ UNCHANGED <<harness, mockAndroid, envLaunch, envHangs, pc, fpc, platform,
                   cmd, procs, spawned, attempts, exc, ret, android_success,
                   ios_success, stdout, exited, exitStatus>>

\* line 50: run_build_command("ios")
MainCallIos ==
    /\ pc = "sleep"
    /\ SleepReturned
    /\ Enter("ios")
    /\ pc' = "in_ios"
    /\ UNCHANGED <<harness, mockAndroid, envLaunch, envHangs, procs, ret,
                   android_success, ios_success, stdout, sleepLeft, elapsed,
                   exited, exitStatus>>

\* line 50: ios_success = <returned value>
MainIosReturned ==
    /\ pc = "in_ios"
    /\ fpc = "returned"
    /\ ios_success' = ret
    /\ fpc' = "idle"
    /\ pc' = "after_ios"
    /\ UNCHANGED <<harness, mockAndroid, envLaunch, envHangs, platform, cmd,
                   procs, spawned, attempts, exc, ret, android_success, stdout,
                   sleepLeft, elapsed, exited, exitStatus>>

\* lines 52-58: optional success line, next steps, main returns: exit status 0
MainFinish ==
    /\ pc = "after_ios"
    /\ stdout' = stdout
                 \o (IF ios_success THEN <<Line("iOS build triggered successfully!")>> ELSE <<>>)
                 \o <<Line("Next steps:")>>
    /\ exited' = TRUE
    /\ exitStatus' = 0
    /\ pc' = "exit"
    /\ UNCHANGED <<harness, mockAndroid, envLaunch, envHangs, fpc, platform, cmd,
                   procs, spawned, attempts, exc, ret, android_success,
                   ios_success, sleepLeft, elapsed>>

\* lines 60-61: an exception leaving main ends the interpreter with status 1
MainUncaught ==
    /\ pc \in {"in_android", "in_ios"}
    /\ fpc = "raised"
    /\ exited' = TRUE
    /\ exitStatus' = 1
    /\ pc' = "exit"
    /\ UNCHANGED <<harness, mockAndroid, envLaunch, envHangs, fpc, platform, cmd,
                   procs, spawned, attempts, exc, ret, android_success,
                   ios_success, stdout, sleepLeft, elapsed>>

\* ---------------------------------------------------------- direct call
\* run_build_command(p) called on its own
DirectCall ==
    /\ harness = "call"
    /\ pc = "start"
    /\ \E p \in Platforms : Enter(p)
    /\ pc' = "in_call"
    /\ UNCHANGED <<harness, mockAndroid, envLaunch, envHangs, procs, ret,
                   android_success, ios_success, stdout, sleepLeft, elapsed,
                   exited, exitStatus>>

Next ==
    \/ RbcEntry
    \/ RbcAndroid
    \/ RbcSpawn
    \/ RbcLaunchFail
    \/ ProcExit
    \/ RbcWait
    \/ RbcExcept
    \/ RbcPropagate
    \/ MainBanner
    \/ MainCallAndroid
    \/ MainCallAndroidMock
    \/ MainAndroidReturned
    \/ MainAndroidFailed
    \/ MainSleep
    \/ Tick
    \/ MainCallIos
    \/ MainIosReturned
    \/ MainFinish
    \/ MainUncaught
    \/ DirectCall

Spec == Init /\ [][Next]_vars

\* the interpreter keeps executing, and a child that does not hang exits
FairSpec == Spec /\ WF_vars(Next)

\* ------------------------------------------------------------ properties
MainRun == harness \in {"script", "mock"}
LastLine == stdout[Len(stdout)]
LastProc == procs[Len(procs)]
IsPrefix(a, b) == Len(a) <= Len(b) /\ \A i \in 1..Len(a) : a[i] = b[i]

\* C1: a run of the script never calls run_build_command("ios"), never
\* spawns an external process, and when it exits it exits with status 1.
C1_ScriptExitsOneBeforeIos ==
    harness = "script" =>
        /\ procs = <<>>
        /\ spawned = 0
        /\ \A i \in 1..Len(attempts) : attempts[i] # "ios"
        /\ pc \notin {"sleep", "in_ios", "after_ios"}
        /\ (exited => exitStatus = 1)

C1_Witness == harness = "script" /\ exited /\ exitStatus = 1 /\ attempts = <<"android">>

\* C2: run_build_command("android") returns False and invokes no external
\* process, whatever the environment.
C2_AndroidReturnsFalseNoProcess ==
    (harness # "mock" /\ platform = "android") =>
        /\ procs = <<>>
        /\ spawned = 0
        /\ fpc \notin {"wait", "handler", "raised"}
        /\ (fpc = "returned" => ret = FALSE)

C2_Witness ==
    harness = "call" /\ platform = "android" /\ fpc = "returned" /\ envLaunch

\* C3: when run_build_command("ios") returns, it returns True exactly when
\* the external process exited with status zero; on a non-zero status the
\* captured CalledProcessError was printed and the result is False.
C3_IosSuccessIffExitZero ==
    (platform = "ios" /\ fpc = "returned") =>
        /\ procs # <<>>
        /\ LastProc.state = "exited"
        /\ (ret <=> LastProc.code = 0)
        /\ (LastProc.code # 0 =>
               /\ ret = FALSE
               /\ LastLine = ErrLine("Build failed: ", CalledProcessError(LastProc.code)))

C3_Witness ==
    /\ platform = "ios" /\ fpc = "returned" /\ procs # <<>>
    /\ LastProc.code # 0 /\ ret = FALSE

\* C4: when the external tool cannot be launched, run_build_command("ios")
\* catches the error, prints it and returns False; nothing is re-raised.
C4_LaunchFailureCaught ==
    (platform = "ios" /\ ~envLaunch /\ FnDone) =>
        /\ fpc = "returned"
        /\ ret = FALSE
        /\ LastLine = ErrLine("Build failed: ", FileNotFoundError)

\* C5: provided every run_build_command call returned a boolean, main exits
\* with status 1 exactly when the Android step returned False; otherwise it
\* prints the next steps and exits with status 0, whatever the iOS result.
C5_ExitReflectsAndroidOnly ==
    (MainRun /\ exited /\ fpc # "raised") =>
        /\ (exitStatus = 1 <=> ~android_success)
        /\ (android_success =>
               /\ exitStatus = 0
               /\ attempts = <<"android", "ios">>
               /\ LastLine = Line("Next steps:"))

C5_Witness ==
    harness = "mock" /\ exited /\ android_success /\ ~ios_success /\ exitStatus = 0

\* C6: in main the Android attempt comes first; the iOS attempt begins only
\* after the Android attempt returned success and the whole delay has
\* elapsed; at most one external process is in progress at any time.
C6_IosAfterAndroidAndDelay ==
    MainRun =>
        /\ IsPrefix(attempts, <<"android", "ios">>)
        /\ (Len(attempts) = 2 =>
               /\ android_success
               /\ elapsed >= SleepSeconds)
        /\ (pc = "in_android" => procs = <<>>)
        /\ Cardinality(Running) <= 1

C6_Witness == harness = "mock" /\ pc = "in_ios" /\ fpc = "wait" /\ Running # {}

\* C7: a call of run_build_command invokes subprocess.run at most once:
\* never on the Android branch, exactly once on the other branch, also when
\* the external process fails.
C7_NoRetries ==
    /\ spawned <= 1
    /\ Len(procs) <= 1
    /\ (harness # "mock" /\ platform = "android" => spawned = 0)
    /\ (platform \notin {"none", "android"} /\ FnDone => spawned = 1)

C7_Witness ==
    /\ platform = "all" /\ fpc = "returned" /\ ret = FALSE
    /\ spawned = 1 /\ Len(procs) = 1

\* C8: every external process is started with exactly the argument list
\* eas build --profile preview --platform <platform> --non-interactive.
C8_ArgvFixed ==
    \A i \in 1..Len(procs) :
        procs[i].argv = <<"eas", "build", "--profile", "preview",
                          "--platform", platform, "--non-interactive">>

C8_Witness == Len(procs) = 1 /\ platform = "all" /\ harness = "call"

\* C9: a run of the script always reaches process exit and never waits on
\* an external process; a call on the iOS branch returns only once the
\* external process has exited, and so finishes exactly when that process
\* eventually exits.
IosCallLaunched == harness = "call" /\ platform = "ios" /\ envLaunch

C9_Termination ==
    /\ (harness = "script") ~> exited
    /\ [](harness = "script" => fpc # "wait" /\ procs = <<>>)
    /\ [](FnDone /\ procs # <<>> => Running = {})
    /\ [](IosCallLaunched /\ ~envHangs => <>FnDone)
    /\ [](IosCallLaunched /\ envHangs => ~FnDone)

C9_Witness ==
    /\ harness = "call" /\ platform = "ios" /\ fpc = "returned"
    /\ procs # <<>> /\ LastProc.state = "exited" /\ ret = TRUE
====
